---- MODULE Spec2Model ----
(***************************************************************************)
(* FaceWorks src/internal.h: the allocation helpers FaceWorks_Malloc and   *)
(* FaceWorks_Free, the STL allocator FaceWorks_Allocator<T> built on them, *)
(* and the scoped timer FaceWorks_Profiler.                                *)
(*                                                                         *)
(* Two specifications share the module: SpecAlloc drives the allocation    *)
(* layer, SpecProf drives one FaceWorks_Profiler object through its life.  *)
(***************************************************************************)
EXTENDS Integers, Sequences, FiniteSets, TLC

(***************************************************************************)
(* Bounds of the model.                                                    *)
(***************************************************************************)
\* callers 1..NumHooks, each with its own pair of hook functions; 0 is nullptr
NumHooks == 1
\* FaceWorks_Allocator objects that are ever constructed
MaxAllocators == 2
\* addresses the underlying allocators can hand out: 1..MaxBlocks
MaxBlocks == 1
\* largest element count passed to allocate
MaxCount == 2
\* size_t arithmetic wraps modulo SizeModulus (2^64 in the build)
SizeModulus == 8

NULL == 0
Ptrs == 1 .. MaxBlocks
HookIds == 0 .. NumHooks
\* element counts passed to allocate: none, one, and the largest
Counts == {0, 1, MaxCount}
\* sizeof(T) of the element types the allocator is instantiated with
ElemSizes == {1, 4}

\* gfsdk_new_delete_t values: a pair of optional function pointers; caller k
\* sets new_ to its function k or leaves it null, and likewise delete_
Policies == UNION {[new_ : {0, k}, delete_ : {0, k}] : k \in HookIds}
\* gfsdk_new_delete_t * arguments: the null pointer, or a pointer to a policy
nullptr == [null |-> TRUE, new_ |-> 0, delete_ |-> 0]
PolicyPtrs == {nullptr} \cup
              {[null |-> FALSE, new_ |-> a.new_, delete_ |-> a.delete_] : a \in Policies}

VARIABLES
    allocators,   \* the FaceWorks_Allocator objects: <<[m_allocator, root]>>
    origin,       \* per object: the pAllocator argument its root was built from
    heap,         \* per address: is it a live block, who produced it
    lastOp,       \* the last operation performed, its inputs and its outcome
    trace         \* calls the last operation made to hooks / platform allocator

allocVars == <<allocators, origin, heap, lastOp, trace>>

VARIABLES
    life,         \* "none", "alive" (constructed), "destroyed"
    profiler,     \* the object's fields
    args,         \* the constructor's arguments
    builtLabel,   \* the label as it stood when the constructor returned
    oob,          \* a write outside m_info_str has happened
    now,          \* the platform's performance counter
    blob,         \* messages BlobPrintf put into the error blob
    samples,      \* calls made to ProfilerPushTime
    queries,      \* QueryPerformanceFrequency / QueryPerformanceCounter calls
    nstart,       \* explicit start() calls so far
    nstop,        \* explicit stop() calls so far
    lastCall      \* the last member call made on the object, and how it ended

profVars == <<life, profiler, args, builtLabel, oob, now, blob, samples,
              queries, nstart, nstop, lastCall>>
vars == <<allocVars, profVars>>

NoBlock == [live |-> FALSE, fn |-> "none"]
NoOp == [op |-> "none", alloc |-> [new_ |-> 0, delete_ |-> 0],
         n |-> 0, elem |-> 0, bytes |-> 0, p |-> NULL, was |-> NoBlock,
         mret |-> NULL, ret |-> NULL, fault |-> "none"]

(***************************************************************************)
(* FaceWorks_Malloc(bytes, allocator).  r is what the allocator that gets  *)
(* called produces: an address, or 0 for "out of memory".  A hook reports  *)
(* that by returning null; ::operator new reports it by throwing           *)
(* std::bad_alloc and never returns null.                                  *)
(***************************************************************************)
\* a call made to a hook or to the platform allocator, and what it returned
Call(fn, hook, arg, ret) == [fn |-> fn, hook |-> hook, arg |-> arg, ret |-> ret]

\* variant: the custom path is taken only when both hooks are set
FaceWorks_Malloc_pair(bytes, allocator, r) ==
    IF allocator.new_ # 0 /\ allocator.delete_ # 0
    THEN [calls |-> <<Call("new_", allocator.new_, bytes, r)>>,
          ret |-> r, fault |-> "none"]
    ELSE [calls |-> <<Call("operator new", 0, bytes, r)>>,
          ret |-> r, fault |-> IF r = NULL THEN "bad_alloc" ELSE "none"]

FaceWorks_Malloc(bytes, allocator, r) ==
    IF allocator.new_ # 0
    THEN [calls |-> <<Call("new_", allocator.new_, bytes, r)>>,
          ret |-> r, fault |-> "none"]
    ELSE [calls |-> <<Call("operator new", 0, bytes, r)>>,
          ret |-> r, fault |-> IF r = NULL THEN "bad_alloc" ELSE "none"]

(***************************************************************************)
(* FaceWorks_Free(p, allocator): the calls it makes.                       *)
(***************************************************************************)
\* variant: the custom path is taken only when both hooks are set
FaceWorks_Free_pair(p, allocator) ==
    IF p = NULL
    THEN << >>
    ELSE IF allocator.new_ # 0 /\ allocator.delete_ # 0
         THEN <<Call("delete_", allocator.delete_, p, NULL)>>
         ELSE <<Call("operator delete", 0, p, NULL)>>

\* variant: no early return for a null pointer
FaceWorks_Free_nonullcheck(p, allocator) ==
    IF allocator.delete_ # 0
    THEN <<Call("delete_", allocator.delete_, p, NULL)>>
    ELSE <<Call("operator delete", 0, p, NULL)>>

FaceWorks_Free(p, allocator) ==
    IF p = NULL
    THEN << >>
    ELSE IF allocator.delete_ # 0
         THEN <<Call("delete_", allocator.delete_, p, NULL)>>
         ELSE <<Call("operator delete", 0, p, NULL)>>

(***************************************************************************)
(* explicit FaceWorks_Allocator(gfsdk_new_delete_t * pAllocator):          *)
(* pAllocator is the null pointer or points to a policy; the result is    *)
(* m_allocator.                                                            *)
(***************************************************************************)
\* variant: the deallocate hook is not taken over
Allocator_ctor_nodelete(pAllocator) ==
    IF ~pAllocator.null
    THEN [new_ |-> pAllocator.new_, delete_ |-> 0]
    ELSE [new_ |-> 0, delete_ |-> 0]

Allocator_ctor(pAllocator) ==
    IF ~pAllocator.null
    THEN [new_ |-> pAllocator.new_, delete_ |-> pAllocator.delete_]
    ELSE [new_ |-> 0, delete_ |-> 0]

(***************************************************************************)
(* FaceWorks_Allocator(FaceWorks_Allocator<T1> const & other), also what   *)
(* rebind<T1>::other is built with: m_allocator(other.m_allocator).        *)
(***************************************************************************)
\* variant: the copy is default-initialised instead of taking other's hooks
Allocator_copy_default(other) == [new_ |-> 0, delete_ |-> 0]

Allocator_copy(other) == other.m_allocator

(***************************************************************************)
(* FaceWorks_Allocator<T>::allocate(n): the product n * sizeof(T) is       *)
(* computed in size_t; a null from FaceWorks_Malloc becomes bad_alloc.     *)
(* T is a template parameter, not object state: sizeofT is sizeof(T) of    *)
(* the instantiation the call is made on.  mret is what FaceWorks_Malloc   *)
(* returned, ret what allocate returns when it returns (fault = "none").   *)
(***************************************************************************)
\* variant: the null check after FaceWorks_Malloc is missing
Allocator_allocate_nocheck(self, sizeofT, n, r) ==
    LET bytes == (n * sizeofT) % SizeModulus
        m == FaceWorks_Malloc(bytes, self.m_allocator, r)
    IN  IF m.fault # "none"
        THEN [calls |-> m.calls, bytes |-> bytes, mret |-> NULL, ret |-> NULL,
              fault |-> m.fault]
        ELSE [calls |-> m.calls, bytes |-> bytes, mret |-> m.ret, ret |-> m.ret,
              fault |-> "none"]

Allocator_allocate(self, sizeofT, n, r) ==
    LET bytes == (n * sizeofT) % SizeModulus
        m == FaceWorks_Malloc(bytes, self.m_allocator, r)
    IN  IF m.fault # "none"
        THEN [calls |-> m.calls, bytes |-> bytes, mret |-> NULL, ret |-> NULL,
              fault |-> m.fault]
        ELSE IF m.ret = NULL
             THEN [calls |-> m.calls, bytes |-> bytes, mret |-> m.ret,
                   ret |-> NULL, fault |-> "bad_alloc"]
             ELSE [calls |-> m.calls, bytes |-> bytes, mret |-> m.ret,
                   ret |-> m.ret, fault |-> "none"]

(***************************************************************************)
(* FaceWorks_Allocator<T>::deallocate(p, n): n is ignored.                 *)
(***************************************************************************)
Allocator_deallocate(self, p, n) == FaceWorks_Free(p, self.m_allocator)

----------------------------------------------------------------------------
\* addresses not in use: the only ones an allocator can return
FreePtrs == {p \in Ptrs : ~heap[p].live}
LivePtrs == {p \in Ptrs : heap[p].live}
\* What an underlying allocator can produce: failure, or a fresh address.
\* Addresses are interchangeable, so the fresh one is the lowest not in use.
Fresh == {p \in FreePtrs : \A q \in FreePtrs : p <= q}
Outcomes == {NULL} \cup Fresh

\* the block the call c produced at address ret
Obtain(h, c, ret) ==
    IF ret = NULL THEN h
    ELSE [h EXCEPT ![ret] = [live |-> TRUE, fn |-> c.fn]]

\* the release of block p by the calls cs
Release(h, cs, p) == IF cs = << >> THEN h ELSE [h EXCEPT ![p] = NoBlock]

InitAlloc ==
    /\ allocators = << >>
    /\ origin = << >>
    /\ heap = [p \in Ptrs |-> NoBlock]
    /\ lastOp = NoOp
    /\ trace = << >>

\* FaceWorks_Allocator<T> a(pAllocator)
Construct(pAllocator) ==
    /\ Len(allocators) < MaxAllocators
    /\ LET m == Allocator_ctor(pAllocator)
           id == Len(allocators) + 1
       IN  /\ allocators' = Append(allocators, [m_allocator |-> m, root |-> id])
           /\ origin' = Append(origin, pAllocator)
           /\ lastOp' = [NoOp EXCEPT !.op = "ctor", !.alloc = m]
    /\ trace' = << >>
    /\ UNCHANGED <<heap, profVars>>

\* FaceWorks_Allocator<T1> b(a): copy, or rebind to another element type
Rebind(i) ==
    /\ Len(allocators) < MaxAllocators
    /\ i \in 1 .. Len(allocators)
    /\ LET m == Allocator_copy(allocators[i])
       IN  /\ allocators' = Append(allocators,
                                   [m_allocator |-> m, root |-> allocators[i].root])
           /\ origin' = Append(origin, origin[i])
           /\ lastOp' = [NoOp EXCEPT !.op = "copy", !.alloc = m]
    /\ trace' = << >>
    /\ UNCHANGED <<heap, profVars>>

\* a.allocate(n); r is the outcome of the underlying allocator
Allocate(i, sizeofT, n, r) ==
    /\ i \in 1 .. Len(allocators)
    /\ r \in Outcomes
    /\ LET self == allocators[i]
           res == Allocator_allocate(self, sizeofT, n, r)
       IN  /\ trace' = res.calls
           /\ heap' = Obtain(heap, res.calls[1], res.mret)
           /\ lastOp' = [NoOp EXCEPT !.op = "allocate",
                                     !.alloc = self.m_allocator, !.n = n,
                                     !.elem = sizeofT, !.bytes = res.bytes,
                                     !.mret = res.mret,
                                     !.ret = res.ret, !.fault = res.fault]
    /\ UNCHANGED <<allocators, origin, profVars>>

\* a.deallocate(p, n): p is null or a live block
Deallocate(i, p, n) ==
    /\ i \in 1 .. Len(allocators)
    /\ p \in {NULL} \cup LivePtrs
    /\ LET self == allocators[i]
           cs == Allocator_deallocate(self, p, n)
       IN  /\ trace' = cs
           /\ heap' = Release(heap, cs, p)
           /\ lastOp' = [NoOp EXCEPT !.op = "deallocate",
                                     !.alloc = self.m_allocator, !.p = p,
                                     !.was = IF p = NULL THEN NoBlock ELSE heap[p]]
    /\ UNCHANGED <<allocators, origin, profVars>>

NextAlloc ==
    \/ \E a \in PolicyPtrs : Construct(a)
    \/ \E i \in 1 .. MaxAllocators : Rebind(i)
    \/ \E i \in 1 .. MaxAllocators, e \in ElemSizes, n \in Counts,
          r \in {NULL} \cup Ptrs : Allocate(i, e, n, r)
    \/ \E i \in 1 .. MaxAllocators, p \in {NULL} \cup Ptrs, n \in {0, MaxCount} :
          Deallocate(i, p, n)


----------------------------------------------------------------------------
(***************************************************************************)
(* Properties of the allocation layer (checked under SpecAlloc).           *)
(***************************************************************************)
Present(h) == h # 0
Family(fn) == IF fn \in {"new_", "delete_"} THEN "custom" ELSE "default"
\* the hooks the caller supplied through the constructor argument o
Supplied(o) == IF o.null THEN [new_ |-> 0, delete_ |-> 0]
               ELSE [new_ |-> o.new_, delete_ |-> o.delete_]

\* C1: allocate(count) either returns a non-null pointer or raises bad_alloc;
\* whenever FaceWorks_Malloc yields no block the fault is raised, and null is
\* never handed to the container.
C1_AllocateNonNullOrFault ==
    lastOp.op = "allocate" =>
        /\ lastOp.fault \in {"none", "bad_alloc"}
        /\ lastOp.fault = "none" => lastOp.ret # NULL /\ lastOp.ret = lastOp.mret
        /\ lastOp.mret = NULL => lastOp.fault = "bad_alloc"

\* C1 witness: the allocate hook returned null and allocate raised bad_alloc
C1_Witness ==
    /\ lastOp.op = "allocate"
    /\ Present(lastOp.alloc.new_)
    /\ Len(trace) = 1 /\ trace[1].fn = "new_" /\ trace[1].ret = NULL
    /\ lastOp.fault = "bad_alloc"

\* C2: FaceWorks_Malloc chooses its path by the allocate hook alone: with the
\* hook set it is called exactly once with exactly the requested byte count,
\* its result (null included) is the result and ::operator new is not called;
\* with the hook unset ::operator new is called with the byte count and no
\* hook is called.
C2_MallocPathByNewHook ==
    lastOp.op = "allocate" =>
        /\ Len(trace) = 1
        /\ trace[1].arg = lastOp.bytes
        /\ IF Present(lastOp.alloc.new_)
           THEN /\ trace[1].fn = "new_"
                /\ trace[1].hook = lastOp.alloc.new_
                /\ lastOp.mret = trace[1].ret
           ELSE /\ trace[1].fn = "operator new"
                /\ trace[1].hook = 0

\* C2 witness: only the allocate hook is set, it is asked for a non-zero
\* byte count and answers null
C2_Witness ==
    /\ lastOp.op = "allocate"
    /\ Present(lastOp.alloc.new_) /\ ~Present(lastOp.alloc.delete_)
    /\ lastOp.bytes > 0
    /\ trace = <<Call("new_", lastOp.alloc.new_, lastOp.bytes, NULL)>>

\* C3: deallocate(p), p non-null, makes exactly one release call with p, to
\* the deallocate hook if it is set and to ::operator delete otherwise,
\* whatever the allocate hook is and however the block was obtained.
C3_FreePathByDeleteHook ==
    (lastOp.op = "deallocate" /\ lastOp.p # NULL) =>
        trace = <<Call(IF Present(lastOp.alloc.delete_)
                       THEN "delete_" ELSE "operator delete",
                       lastOp.alloc.delete_, lastOp.p, NULL)>>

\* C3 witness: only the deallocate hook is set; a block that came from
\* ::operator new is released through the hook
C3_Witness ==
    /\ lastOp.op = "deallocate" /\ lastOp.p # NULL
    /\ ~Present(lastOp.alloc.new_) /\ Present(lastOp.alloc.delete_)
    /\ lastOp.was.fn = "operator new"
    /\ Len(trace) = 1 /\ trace[1].fn = "delete_"

\* C4: deallocate(null) calls neither the deallocate hook nor ::operator
\* delete and raises no fault, whatever hooks are set.
C4_FreeNullIsNoOp ==
    (lastOp.op = "deallocate" /\ lastOp.p = NULL) =>
        trace = << >> /\ lastOp.fault = "none"

\* C4 witness: deallocate(null) on an allocator whose deallocate hook is set
C4_Witness ==
    /\ lastOp.op = "deallocate" /\ lastOp.p = NULL
    /\ Present(lastOp.alloc.delete_)

\* C5: every allocator object, however long the chain of copies / rebinds it
\* came from and whatever allocate / deallocate calls were made meanwhile,
\* holds exactly the hook pair its original was constructed from.
C5_RebindPreservesHooks ==
    \A i \in 1 .. Len(allocators) :
        allocators[i].m_allocator = Supplied(origin[i])

\* C5 witness: a copy of an allocator built from a full hook pair, after a
\* block has been released
C5_Witness ==
    /\ Len(allocators) >= 2
    /\ allocators[2].root = 1
    /\ Present(origin[1].new_) /\ Present(origin[1].delete_)
    /\ lastOp.op = "deallocate" /\ lastOp.p # NULL

\* objects 1..Len(allocators) are one allocator and its copies / rebinds
OneFamily == Len(allocators) >= 1 /\ \A i \in 1 .. Len(allocators) : allocators[i].root = 1
Matched(o) == Present(Supplied(o).new_) <=> Present(Supplied(o).delete_)

\* C6: when the caller supplied both hooks or neither, a block released
\* through an allocator or any of its copies / rebinds goes back to the family
\* it came from: hook-allocated blocks to the deallocate hook, ::operator new
\* blocks to ::operator delete.
C6_FamiliesNeverMixed ==
    (/\ OneFamily
     /\ Matched(origin[1])
     /\ lastOp.op = "deallocate" /\ lastOp.p # NULL) =>
        /\ Len(trace) = 1
        /\ Family(trace[1].fn) = Family(lastOp.was.fn)

\* C6 witness: an allocator with both hooks and its copy; a block from the
\* allocate hook has been released
C6_Witness ==
    /\ OneFamily /\ Len(allocators) >= 2
    /\ Present(Supplied(origin[1]).new_) /\ Matched(origin[1])
    /\ lastOp.op = "deallocate" /\ lastOp.p # NULL
    /\ lastOp.was.fn = "new_"

----------------------------------------------------------------------------
(***************************************************************************)
(* FaceWorks_Profiler.                                                     *)
(***************************************************************************)
\* explicit start() / stop() calls made on the object
MaxCalls == 4
\* the platform counter runs from 1 to MaxNow
MaxNow == 3
\* ticks per second reported by a successful QueryPerformanceFrequency
PerfFrequency == 2
\* length of the short strings passed as name and fun
ShortLen == 3

\* sizeof(m_info_str)
InfoStrSize == 264
\* min(strlen(name), 64ull)
NameCap == 64
\* min(strlen(fun), 64ull)
FunCap == 64
\* 256ull - name_sz
LabelCap == 256

\* "FaceWorks_Profiler: "
Prefix == <<70, 97, 99, 101, 87, 111, 114, 107, 115, 95,
            80, 114, 111, 102, 105, 108, 101, 114, 58, 32>>
\* '|'
Separator == 124

\* const char * arguments: the null pointer, or a string of non-zero bytes
NullStr == [null |-> TRUE, s |-> << >>]
\* a string of len bytes: letters starting at first, cycling through 26
Str(len, first) == [null |-> FALSE, s |-> [i \in 1 .. len |-> first + ((i - 1) % 26)]]
strlen(x) == Len(x.s)
Min(a, b) == IF a <= b THEN a ELSE b


\* memset(..., 0, ...) of every field, flags false
Zeroed == [m_begin |-> 0, m_end |-> 0, m_freq |-> 0,
           m_info_str |-> [i \in 1 .. InfoStrSize |-> 0],
           m_did_start |-> FALSE, m_is_dummy |-> FALSE,
           pErrorBlobOut |-> FALSE]

\* the C string held in buf: the bytes before the first zero byte
CStr(buf) ==
    LET zeros == {i \in 1 .. Len(buf) : buf[i] = 0}
        n == IF zeros = {} THEN Len(buf)
             ELSE (CHOOSE i \in zeros : \A j \in zeros : i <= j) - 1
    IN  SubSeq(buf, 1, n)

\* memcpy_s(&buf[off], count, src, count), with buf[0] at position 1;
\* bytes that would land outside buf are not stored
Memcpy(buf, off, src, count) ==
    [i \in 1 .. Len(buf) |->
        IF off < i /\ i <= off + count THEN src[i - off] ELSE buf[i]]

\* buf[off] = c
Store(buf, off, c) == [i \in 1 .. Len(buf) |-> IF i = off + 1 THEN c ELSE buf[i]]

\* what one call leaves behind: the object, and the calls it made
Effect(self, msgs, qs, pushed, outside) ==
    [self |-> self, blob |-> msgs, queries |-> qs, samples |-> pushed,
     oob |-> outside]
NoEffect(self) == Effect(self, << >>, << >>, << >>, FALSE)

\* ErrPrintf("[%s] QueryPerformanceCounter failed with error %lu\n", m_info_str, ...)
\* the value of GetLastError() is left out
\* sink is the first argument: whether pErrorBlobOut points to a blob
ErrPrintf(self) ==
    [severity |-> "Error: ", text |-> "QueryPerformanceCounter failed",
     info |-> CStr(self.m_info_str), sink |-> self.pErrorBlobOut]

Query(api, which, ok) == [api |-> api, which |-> which, ok |-> ok]

\* variant: the constructor leaves the frequency alone
Profiler_ctor_nofreq(name, fun, pBlob, freqOk) ==
    LET z == [Zeroed EXCEPT !.pErrorBlobOut = pBlob]
    IN  IF ~name.null /\ ~fun.null
        THEN LET prefixLen == Len(Prefix)
                 b1 == Memcpy(z.m_info_str, 0, Prefix, prefixLen)
                 name_sz0 == Min(strlen(name), NameCap)
                 b2 == Memcpy(b1, prefixLen, name.s, name_sz0)
                 name_sz1 == name_sz0 + prefixLen
                 b3 == Store(b2, name_sz1, Separator)
                 name_sz == name_sz1 + 1
                 fun_sz == Min(strlen(fun), FunCap)
                 len == Min(LabelCap - name_sz, fun_sz)
                 b4 == Memcpy(b3, name_sz, fun.s, len)
             IN  NoEffect([z EXCEPT !.m_info_str = b4])
        ELSE NoEffect([z EXCEPT !.m_is_dummy = TRUE])

\* variant: the whole of name is copied
Profiler_ctor_nonamecap(name, fun, pBlob, freqOk) ==
    LET z == [Zeroed EXCEPT !.pErrorBlobOut = pBlob]
    IN  IF ~name.null /\ ~fun.null
        THEN LET prefixLen == Len(Prefix)
                 b1 == Memcpy(z.m_info_str, 0, Prefix, prefixLen)
                 name_sz0 == strlen(name)
                 b2 == Memcpy(b1, prefixLen, name.s, name_sz0)
                 name_sz1 == name_sz0 + prefixLen
                 b3 == Store(b2, name_sz1, Separator)
                 name_sz == name_sz1 + 1
                 fun_sz == Min(strlen(fun), FunCap)
                 len == Min(LabelCap - name_sz, fun_sz)
                 b4 == Memcpy(b3, name_sz, fun.s, len)
                 outside == \/ prefixLen > InfoStrSize
                            \/ prefixLen + name_sz0 > InfoStrSize
                            \/ name_sz1 >= InfoStrSize
                            \/ name_sz + len > InfoStrSize
                 self == [z EXCEPT !.m_info_str = b4,
                                   !.m_freq = IF freqOk THEN PerfFrequency ELSE 0]
             IN  Effect(self,
                        IF ~freqOk /\ pBlob THEN <<ErrPrintf(self)>> ELSE << >>,
                        <<Query("QueryPerformanceFrequency", "m_freq", freqOk)>>,
                        << >>, outside)
        ELSE NoEffect([z EXCEPT !.m_is_dummy = TRUE])

\* variant: fun is limited only by what is left of the 256 bytes
Profiler_ctor_nofuncap(name, fun, pBlob, freqOk) ==
    LET z == [Zeroed EXCEPT !.pErrorBlobOut = pBlob]
    IN  IF ~name.null /\ ~fun.null
        THEN LET prefixLen == Len(Prefix)
                 b1 == Memcpy(z.m_info_str, 0, Prefix, prefixLen)
                 name_sz0 == Min(strlen(name), NameCap)
                 b2 == Memcpy(b1, prefixLen, name.s, name_sz0)
                 name_sz1 == name_sz0 + prefixLen
                 b3 == Store(b2, name_sz1, Separator)
                 name_sz == name_sz1 + 1
                 fun_sz == strlen(fun)
                 len == Min(LabelCap - name_sz, fun_sz)
                 b4 == Memcpy(b3, name_sz, fun.s, len)
                 outside == \/ prefixLen > InfoStrSize
                            \/ prefixLen + name_sz0 > InfoStrSize
                            \/ name_sz1 >= InfoStrSize
                            \/ name_sz + len > InfoStrSize
                 self == [z EXCEPT !.m_info_str = b4,
                                   !.m_freq = IF freqOk THEN PerfFrequency ELSE 0]
             IN  Effect(self,
                        IF ~freqOk /\ pBlob THEN <<ErrPrintf(self)>> ELSE << >>,
                        <<Query("QueryPerformanceFrequency", "m_freq", freqOk)>>,
                        << >>, outside)
        ELSE NoEffect([z EXCEPT !.m_is_dummy = TRUE])

(***************************************************************************)
(* FaceWorks_Profiler(name, fun, pBlob); freqOk is the outcome of          *)
(* QueryPerformanceFrequency, which leaves m_freq alone when it fails.     *)
(***************************************************************************)
Profiler_ctor(name, fun, pBlob, freqOk) ==
    LET z == [Zeroed EXCEPT !.pErrorBlobOut = pBlob]
    IN  IF ~name.null /\ ~fun.null
        THEN LET prefixLen == Len(Prefix)
                 b1 == Memcpy(z.m_info_str, 0, Prefix, prefixLen)
                 name_sz0 == Min(strlen(name), NameCap)
                 b2 == Memcpy(b1, prefixLen, name.s, name_sz0)
                 name_sz1 == name_sz0 + prefixLen
                 b3 == Store(b2, name_sz1, Separator)
                 name_sz == name_sz1 + 1
                 fun_sz == Min(strlen(fun), FunCap)
                 len == Min(LabelCap - name_sz, fun_sz)
                 b4 == Memcpy(b3, name_sz, fun.s, len)
                 outside == \/ prefixLen > InfoStrSize
                            \/ prefixLen + name_sz0 > InfoStrSize
                            \/ name_sz1 >= InfoStrSize
                            \/ name_sz + len > InfoStrSize
                 self == [z EXCEPT !.m_info_str = b4,
                                   !.m_freq = IF freqOk THEN PerfFrequency ELSE 0]
             IN  Effect(self,
                        IF ~freqOk /\ pBlob THEN <<ErrPrintf(self)>> ELSE << >>,
                        <<Query("QueryPerformanceFrequency", "m_freq", freqOk)>>,
                        << >>, outside)
        ELSE NoEffect([z EXCEPT !.m_is_dummy = TRUE])

\* variant: the failure is reported whether or not a blob was given
try_query_and_report_err_nosinkcheck(self, which, ok, t) ==
    Effect(IF ok THEN [self EXCEPT ![which] = t] ELSE self,
           IF ~ok THEN <<ErrPrintf(self)>> ELSE << >>,
           <<Query("QueryPerformanceCounter", which, ok)>>,
           << >>, FALSE)

(***************************************************************************)
(* try_query_and_report_err(which): t is the counter's value, ok whether   *)
(* QueryPerformanceCounter succeeds; a failed query leaves `which` alone.  *)
(***************************************************************************)
try_query_and_report_err(self, which, ok, t) ==
    Effect(IF ok THEN [self EXCEPT ![which] = t] ELSE self,
           IF ~ok /\ self.pErrorBlobOut THEN <<ErrPrintf(self)>> ELSE << >>,
           <<Query("QueryPerformanceCounter", which, ok)>>,
           << >>, FALSE)

\* variant: start() does not look at m_did_start
Profiler_start_again(self, ok, t) ==
    IF ~self.m_is_dummy
    THEN LET e == try_query_and_report_err(self, "m_begin", ok, t)
         IN  [e EXCEPT !.self.m_did_start = TRUE]
    ELSE NoEffect(self)

\* variant: start() marks the object started only when the capture succeeded
Profiler_start_retry(self, ok, t) ==
    IF ~self.m_did_start /\ ~self.m_is_dummy
    THEN LET e == try_query_and_report_err(self, "m_begin", ok, t)
         IN  [e EXCEPT !.self.m_did_start = ok]
    ELSE NoEffect(self)

\* variant: start() does not look at m_is_dummy
Profiler_start_nodummycheck(self, ok, t) ==
    IF ~self.m_did_start
    THEN LET e == try_query_and_report_err(self, "m_begin", ok, t)
         IN  [e EXCEPT !.self.m_did_start = TRUE]
    ELSE NoEffect(self)

(***************************************************************************)
(* start()                                                                 *)
(***************************************************************************)
Profiler_start(self, ok, t) ==
    IF ~self.m_did_start /\ ~self.m_is_dummy
    THEN LET e == try_query_and_report_err(self, "m_begin", ok, t)
         IN  [e EXCEPT !.self.m_did_start = TRUE]
    ELSE NoEffect(self)

(***************************************************************************)
(* stop()                                                                  *)
(***************************************************************************)
Profiler_stop(self, ok, t) ==
    IF self.m_did_start /\ ~self.m_is_dummy
    THEN try_query_and_report_err(self, "m_end", ok, t)
    ELSE NoEffect(self)

\* (double)diff * (1.0 / (double)freq): a zero frequency gives an infinite
\* factor, so the product is +-infinity, or NaN when diff is 0
Secs(diff, freq) ==
    IF freq # 0 THEN [kind |-> "finite", num |-> diff, den |-> freq]
    ELSE IF diff > 0 THEN [kind |-> "+inf", num |-> 0, den |-> 0]
    ELSE IF diff < 0 THEN [kind |-> "-inf", num |-> 0, den |-> 0]
    ELSE [kind |-> "nan", num |-> 0, den |-> 0]

\* ProfilerPushTime(pInfoString, seconds)
ProfilerPushTime(pInfoString, seconds) ==
    [label |-> CStr(pInfoString), secs |-> seconds]

\* variant: the destructor reports whether or not start() was ever called
Profiler_dtor_always(self, ok, t) ==
    LET e == Profiler_stop(self, ok, t)
        diff == e.self.m_end - e.self.m_begin
    IN  [e EXCEPT !.samples =
            <<ProfilerPushTime(e.self.m_info_str, Secs(diff, e.self.m_freq))>>]

(***************************************************************************)
(* ~FaceWorks_Profiler()                                                   *)
(***************************************************************************)
Profiler_dtor(self, ok, t) ==
    IF self.m_did_start
    THEN LET e == Profiler_stop(self, ok, t)
             diff == e.self.m_end - e.self.m_begin
         IN  [e EXCEPT !.samples =
                 <<ProfilerPushTime(e.self.m_info_str, Secs(diff, e.self.m_freq))>>]
    ELSE NoEffect(self)

----------------------------------------------------------------------------
\* a member call ends normally unless it wrote through a null blob pointer
Fault(e) ==
    IF \E k \in 1 .. Len(e.blob) : ~e.blob[k].sink THEN "null blob" ELSE "none"

\* the effect e of the member call op on the object takes place
Apply(op, e) ==
    /\ lastCall' = [op |-> op, fault |-> Fault(e)]
    /\ profiler' = e.self
    /\ blob' = blob \o e.blob
    /\ queries' = queries \o e.queries
    /\ samples' = samples \o e.samples
    /\ oob' = (oob \/ e.oob)

InitProf ==
    /\ life = "none"
    /\ profiler = Zeroed
    /\ args = [name |-> NullStr, fun |-> NullStr, pBlob |-> FALSE]
    /\ builtLabel = << >>
    /\ oob = FALSE
    /\ now = 1
    /\ blob = << >>
    /\ samples = << >>
    /\ queries = << >>
    /\ nstart = 0
    /\ nstop = 0
    /\ lastCall = [op |-> "none", fault |-> "none"]

\* FaceWorks_Profiler p(name, fun, pBlob), also through DeclFaceWorksProfiler
PConstruct(name, fun, pBlob, freqOk) ==
    /\ life = "none"
    /\ life' = "alive"
    /\ LET e == Profiler_ctor(name, fun, pBlob, freqOk)
       IN  /\ Apply("ctor", e)
           /\ builtLabel' = CStr(e.self.m_info_str)
    /\ args' = [name |-> name, fun |-> fun, pBlob |-> pBlob]
    /\ UNCHANGED <<now, nstart, nstop, allocVars>>

\* p.start()
PStart(ok) ==
    /\ life = "alive"
    /\ nstart + nstop < MaxCalls
    /\ Apply("start", Profiler_start(profiler, ok, now))
    /\ nstart' = nstart + 1
    /\ UNCHANGED <<life, args, builtLabel, now, nstop, allocVars>>

\* p.stop()
PStop(ok) ==
    /\ life = "alive"
    /\ nstart + nstop < MaxCalls
    /\ Apply("stop", Profiler_stop(profiler, ok, now))
    /\ nstop' = nstop + 1
    /\ UNCHANGED <<life, args, builtLabel, now, nstart, allocVars>>

\* p goes out of scope
PDestroy(ok) ==
    /\ life = "alive"
    /\ life' = "destroyed"
    /\ Apply("dtor", Profiler_dtor(profiler, ok, now))
    /\ UNCHANGED <<args, builtLabel, now, nstart, nstop, allocVars>>

\* the performance counter advances while the object is in scope
Tick ==
    /\ life = "alive"
    /\ now < MaxNow
    /\ now' = now + 1
    /\ UNCHANGED <<life, profiler, args, builtLabel, oob, blob, samples,
                   queries, nstart, nstop, lastCall, allocVars>>

\* lengths of the long strings passed as name and fun
LongLen == 100
HugeLen == 300

\* name and fun as the instrumented functions pass them
ProfNames == {NullStr, Str(ShortLen, 65)}
ProfFuns == {NullStr, Str(ShortLen, 97)}

\* name and fun of every length class the constructor tells apart
LabelLens == {0, ShortLen, NameCap, NameCap + 1, LongLen, HugeLen}
LabelNames == {NullStr} \cup {Str(n, 65) : n \in LabelLens}
LabelFuns == {NullStr} \cup {Str(n, 97) : n \in LabelLens}

\* DeclFaceWorksProfiler(name): construct and start, report at scope exit
NextLabel ==
    \/ \E name \in LabelNames, fun \in LabelFuns, pBlob \in BOOLEAN, ok \in BOOLEAN :
          PConstruct(name, fun, pBlob, ok)
    \/ \E ok \in BOOLEAN : PStart(ok)
    \/ \E ok \in BOOLEAN : PDestroy(ok)

NextProf ==
    \/ \E name \in ProfNames, fun \in ProfFuns, pBlob \in BOOLEAN, ok \in BOOLEAN :
          PConstruct(name, fun, pBlob, ok)
    \/ \E ok \in BOOLEAN : PStart(ok)
    \/ \E ok \in BOOLEAN : PStop(ok)
    \/ \E ok \in BOOLEAN : PDestroy(ok)
    \/ Tick

----------------------------------------------------------------------------
Init == InitAlloc /\ InitProf

\* the allocation layer alone
SpecAlloc == Init /\ [][NextAlloc]_vars

\* one FaceWorks_Profiler object from construction to destruction
SpecProf == Init /\ [][NextProf]_vars

\* the same object as the profiling macro uses it, with names and contexts of
\* every length
SpecLabel == Init /\ [][NextLabel]_vars

----------------------------------------------------------------------------
(***************************************************************************)
(* Properties of FaceWorks_Profiler (checked under SpecProf).              *)
(***************************************************************************)
Constructed == life # "none"
\* constructed with the operation name or the calling context absent
DummyArgs == args.name.null \/ args.fun.null
AllQueriesOk == \A k \in 1 .. Len(queries) : queries[k].ok
FreqFailed == \E k \in 1 .. Len(queries) : queries[k].which = "m_freq" /\ ~queries[k].ok

\* C7: an object constructed without a name or without a context is inert
\* for good: whatever start() / stop() calls and destruction follow, it makes
\* no counter or frequency query, produces no diagnostic, is never marked
\* started and pushes no sample.
C7_DummyIsInert ==
    (Constructed /\ DummyArgs) =>
        /\ profiler.m_is_dummy
        /\ ~profiler.m_did_start
        /\ queries = << >>
        /\ blob = << >>
        /\ samples = << >>

\* C7 witness: a destroyed dummy on which start() and stop() were called
C7_Witness ==
    /\ life = "destroyed" /\ DummyArgs
    /\ nstart >= 2 /\ nstop >= 1

\* C8: with every timing query succeeding, a non-dummy object pushes nothing
\* while it is alive, and by the time it is destroyed it has pushed exactly
\* one sample if start() was ever called and none otherwise; the sample
\* carries the label built by the constructor.
C8_OneSampleAtDestruction ==
    (Constructed /\ ~DummyArgs /\ AllQueriesOk) =>
        /\ life = "alive" => samples = << >>
        /\ life = "destroyed" =>
              IF nstart >= 1
              THEN Len(samples) = 1 /\ samples[1].label = builtLabel
              ELSE samples = << >>

\* C8 witness: started, explicitly stopped, destroyed, all queries good
C8_Witness ==
    /\ life = "destroyed" /\ ~DummyArgs /\ AllQueriesOk
    /\ nstart >= 1 /\ nstop >= 1
    /\ Len(samples) = 1

\* the end-timestamp capture made by the destructor's stop() failed
LastEndCaptureFailed ==
    /\ life = "destroyed"
    /\ queries # << >>
    /\ queries[Len(queries)].which = "m_end"
    /\ ~queries[Len(queries)].ok

\* C9 (as claimed): when the end-timestamp capture of stop() fails for a
\* started object (every earlier query having gone well), the failure goes to the
\* diagnostic sink (if one was given) and the object pushes no sample.
C9_NoSampleAfterFailedStop ==
    (LastEndCaptureFailed /\ \A k \in 1 .. Len(queries) - 1 : queries[k].ok) =>
        /\ samples = << >>
        /\ profiler.pErrorBlobOut => blob # << >>

\* every counter query so far succeeded
CountersOk == \A k \in 1 .. Len(queries) :
                 queries[k].api = "QueryPerformanceCounter" => queries[k].ok

\* C10 (as claimed): when the frequency query fails (the counter queries
\* going well), the object never pushes a sample and produces exactly one
\* diagnostic over its life (none can be produced without a sink).
C10_FreqFailureSilencesObject ==
    (Constructed /\ FreqFailed /\ CountersOk) =>
        /\ samples = << >>
        /\ Len(blob) <= 1
        /\ profiler.pErrorBlobOut => Len(blob) = 1

\* some timing query failed
SomeQueryFailed == \E k \in 1 .. Len(queries) : ~queries[k].ok
FailedQueries == {k \in 1 .. Len(queries) : ~queries[k].ok}

\* C11: whatever timing queries fail, the constructor, start(), stop() and
\* the destructor all end normally; a diagnostic is written only through a
\* blob the caller supplied, one per failed query, and an object built
\* without a blob writes none and never touches the null blob pointer.
C11_FailuresNeverEscalate ==
    Constructed =>
        /\ lastCall.fault = "none"
        /\ \A k \in 1 .. Len(blob) : blob[k].sink
        /\ ~args.pBlob => blob = << >>
        /\ args.pBlob => Len(blob) = Cardinality(FailedQueries)

\* C11 witness: built without a blob, the frequency query, the begin capture
\* and the end capture all failed, and the object was destroyed
C11_Witness ==
    /\ life = "destroyed" /\ ~DummyArgs /\ ~args.pBlob
    /\ lastCall.op = "dtor"
    /\ Len(queries) >= 3
    /\ \A k \in 1 .. Len(queries) : ~queries[k].ok
    /\ blob = << >>

\* the queries that captured (or tried to capture) m_begin, m_end, m_freq
Captures(which) == {k \in 1 .. Len(queries) : queries[k].which = which}
CaptureFailed(which) == \E k \in Captures(which) : ~queries[k].ok

\* C14 (as claimed): for an object that was started and destroyed with a
\* good non-zero frequency and a counter that never runs backwards, the
\* reported time is a finite, non-negative number, whichever of the begin and
\* end captures succeeded.
C14_ElapsedNeverNegative ==
    (life = "destroyed" /\ ~DummyArgs /\ ~FreqFailed) =>
        \A k \in 1 .. Len(samples) :
            samples[k].secs.kind = "finite" /\ samples[k].secs.num >= 0

\* C15 (as claimed): over any explicit stop() calls and the stop made by the
\* destructor, the end timestamp is captured at most once.
C15_EndCapturedAtMostOnce ==
    Cardinality(Captures("m_end")) <= 1

\* a start() call that is not the first one made on the object
LaterStart == nstart >= 1 /\ nstart' = nstart + 1

\* C16: the begin timestamp is captured at most once, and every start()
\* call after the first one, also one made after stop(), changes no field of
\* the object, makes no query, and reports and pushes nothing.
C16_StartOnlyOnce ==
    /\ [](Cardinality(Captures("m_begin")) <= 1)
    /\ [][LaterStart => UNCHANGED <<profiler, queries, blob, samples>>]_vars

\* C16 witness: start() has just been called again on a non-dummy object whose
\* last query was an end capture, that is after a stop()
C16_Witness ==
    /\ life = "alive" /\ ~DummyArgs
    /\ lastCall.op = "start" /\ nstart >= 2 /\ nstop >= 1
    /\ queries[Len(queries)].which = "m_end"
    /\ Cardinality(Captures("m_begin")) = 1

\* C18 (as claimed): every message put into the error blob is a warning
\* about a failed timestamp or frequency query; none carries error severity.
C18_DiagnosticsAreWarnings ==
    \A k \in 1 .. Len(blob) : blob[k].severity = "Warning: "

\* C19 (as claimed): a non-dummy object on which start() was never called
\* has made no frequency query and no timestamp query and has produced no
\* diagnostic, destroyed or not.
C19_NoQueryWithoutStart ==
    (Constructed /\ ~DummyArgs /\ nstart = 0) =>
        queries = << >> /\ blob = << >>

\* C19 (amended): the frequency is queried once, by the constructor of a
\* non-dummy object, before any start(); a non-dummy object on which start()
\* was never called has made that one frequency query and no timestamp
\* query, has pushed no sample, and has produced a diagnostic exactly when
\* the frequency query failed and a blob was given.
C19_FrequencyQueriedByConstructor ==
    (Constructed /\ ~DummyArgs) =>
        /\ Captures("m_freq") = {1}
        /\ nstart = 0 =>
              /\ Len(queries) = 1
              /\ samples = << >>
              /\ Len(blob) = IF FreqFailed /\ args.pBlob THEN 1 ELSE 0

\* C19 witness: built with a blob, the frequency query failed, stop() was
\* called, start() never, and the object was destroyed
C19_Witness ==
    /\ life = "destroyed" /\ ~DummyArgs /\ args.pBlob
    /\ nstart = 0 /\ nstop >= 1
    /\ FreqFailed /\ Len(blob) = 1

\* C20: once start() has been called on a non-dummy object the object is
\* started, whether or not the begin capture succeeded; the capture was tried
\* exactly once however many start() calls followed, a failed one left
\* m_begin zero, and the destructor still ran stop() and pushed the sample.
C20_FirstStartAlwaysStarts ==
    (Constructed /\ ~DummyArgs /\ nstart >= 1) =>
        /\ profiler.m_did_start
        /\ Cardinality(Captures("m_begin")) = 1
        /\ CaptureFailed("m_begin") => profiler.m_begin = 0
        /\ life = "destroyed" =>
              /\ queries[Len(queries)].which = "m_end"
              /\ Len(samples) = 1

\* C20 witness: the begin capture failed, start() was called again, and the
\* object was destroyed
C20_Witness ==
    /\ life = "destroyed" /\ ~DummyArgs
    /\ CaptureFailed("m_begin") /\ nstart >= 2
    /\ profiler.m_did_start /\ profiler.m_begin = 0
    /\ Len(samples) = 1

----------------------------------------------------------------------------
(***************************************************************************)
(* The label (checked under SpecLabel).                                    *)
(***************************************************************************)
Label == CStr(profiler.m_info_str)

\* C12: whatever the lengths of name and context (0, more than 64, more than
\* 256 bytes), building the label writes no byte outside m_info_str, the label
\* is at most 256 bytes long, and a zero byte follows it inside the buffer.
C12_LabelBoundsSafe ==
    Constructed =>
        /\ ~oob
        /\ Len(profiler.m_info_str) = InfoStrSize
        /\ Len(Label) <= LabelCap
        /\ Len(Label) < InfoStrSize
        /\ profiler.m_info_str[Len(Label) + 1] = 0

\* C12 witness: name and context both longer than 256 bytes, label reported
C12_Witness ==
    /\ life = "destroyed" /\ ~DummyArgs
    /\ strlen(args.name) > LabelCap /\ strlen(args.fun) > LabelCap
    /\ Len(samples) = 1

\* prefix, the first NameCap bytes of name, '|', the first k bytes of fun
ExpectedLabel(name, fun, k) ==
    Prefix \o SubSeq(name.s, 1, Min(strlen(name), NameCap))
           \o <<Separator>> \o SubSeq(fun.s, 1, k)

\* what the 256-byte limit leaves for the context after prefix, name and '|'
Budget(name) == LabelCap - Len(Prefix) - Min(strlen(name), NameCap) - 1

\* C13 (as claimed): the label is the whole prefix, the first 64 bytes of the
\* name, the separator, and the first min(len(context), 256 - len(prefix) -
\* min(len(name), 64) - 1) bytes of the context.
C13_ContextFillsBudget ==
    (Constructed /\ ~DummyArgs) =>
        Label = ExpectedLabel(args.name, args.fun,
                              Min(strlen(args.fun), Budget(args.name)))

\* C13 (amended): the label is the whole prefix, the first 64 bytes of the
\* name, the separator, and the first min(len(context), 64) bytes of the
\* context; the 256-byte budget never gets to cut the context. The label
\* pushed with the sample is the same.
C13_ContextCappedAt64 ==
    (Constructed /\ ~DummyArgs) =>
        /\ Min(strlen(args.fun), FunCap) <= Budget(args.name)
        /\ Label = ExpectedLabel(args.name, args.fun, Min(strlen(args.fun), FunCap))
        /\ \A k \in 1 .. Len(samples) : samples[k].label = Label

\* C13 witness: a 100-byte name and a 100-byte context; the reported label
\* holds 64 bytes of each
C13_Witness ==
    /\ life = "destroyed" /\ Len(samples) = 1
    /\ strlen(args.name) = LongLen /\ strlen(args.fun) = LongLen
    /\ Len(samples[1].label) = Len(Prefix) + NameCap + 1 + FunCap

----------------------------------------------------------------------------
(***************************************************************************)
(* The requested size (checked under SpecAlloc).                           *)
(***************************************************************************)
\* C17 (as claimed): allocate(n) asks the allocate hook or ::operator new for
\* exactly n * sizeof(T) bytes, never for fewer.
C17_AllocateRequestsProduct ==
    lastOp.op = "allocate" =>
        /\ Len(trace) = 1
        /\ trace[1].arg = lastOp.n * lastOp.elem

====
